---- MODULE Spec2Model ----
(***************************************************************************)
(* Model of cursor_core's Cursor (src/src/cursor.rs): a borrowed byte      *)
(* buffer and one read offset.  Every method is a pure operator over       *)
(* (buffer, offset) that yields the new offset and the returned value;     *)
(* one action per method applies it to the state.                          *)
(*                                                                         *)
(* Encoding of Rust values:                                                *)
(*   Option<T>        None = << >>, Some(x) = <<x>>                        *)
(*   (usize, usize)   <<start, end>>                                       *)
(*   &[u8]            a sequence of bytes; buf[k+1] is the byte at index k *)
(*   FnMut(u8)->bool  the set of bytes on which the predicate is true      *)
(***************************************************************************)
EXTENDS Integers, Sequences, FiniteSets

\* ---- bounds of the model ----
MaxLen == 3
MaxPat == 2

\* The bytes buffers and arguments are drawn from: ' ', '1', 'a'.
Bytes == {32, 49, 97}

\* usize::MAX of the modelled machine word (16 bits wide here).
UsizeMax == (2 ^ 16) - 1

VARIABLES buf, i, op, arg, pre, ret, calls, bm, first, iters

vars == <<buf, i, op, arg, pre, ret, calls, bm, first, iters>>

\* ---- Option ----
None == << >>
Some(x) == <<x>>

\* ---- helpers standing for core library functions the code calls ----
Min(a, b) == IF a < b THEN a ELSE b

\* All sequences over S of length at most n.
SeqsUpTo(S, n) == UNION {[1..k -> S] : k \in 0..n}

\* <[u8]>::get(k).copied()
get(b, k) == IF k < Len(b) THEN Some(b[k + 1]) ELSE None

\* &b[o..]
tail(b, o) == SubSeq(b, o + 1, Len(b))

\* <[u8]>::starts_with: the length test comes first, then the comparison.
slice_starts_with(s, pat) == Len(pat) <= Len(s) /\ SubSeq(s, 1, Len(pat)) = pat

\* usize::saturating_sub
saturating_sub(a, b) == IF a >= b THEN a - b ELSE 0

\* ---- basic queries ----
eof(b, o) == o >= Len(b)

pos(b, o) == o

remaining(b, o) == saturating_sub(Len(b), o)

as_slice(b, o) == tail(b, o)

\* ---- peek / consume ----
peek(b, o) == get(b, o)

\* Variant: the byte is read after the offset moved.
next_byte_ahead(b, o) ==
    IF peek(b, o) = None
    THEN [i |-> o, ret |-> None]
    ELSE [i |-> o + 1, ret |-> get(b, o + 1)]

\* Variant: the byte is returned and the offset stays.
next_byte_stay(b, o) ==
    IF peek(b, o) = None
    THEN [i |-> o, ret |-> None]
    ELSE [i |-> o, ret |-> peek(b, o)]

next_byte(b, o) ==
    IF peek(b, o) = None
    THEN [i |-> o, ret |-> None]
    ELSE [i |-> o + 1, ret |-> peek(b, o)]

advance(b, o, n) ==
    LET rem == remaining(b, o)
        step == IF n > rem THEN rem ELSE n
    IN  [i |-> o + step, ret |-> step]

\* Variant: a byte that does not match is consumed all the same.
skip_byte_unchecked(b, o, x) ==
    IF peek(b, o) = Some(x)
    THEN [i |-> o + 1, ret |-> TRUE]
    ELSE [i |-> Min(o + 1, Len(b)), ret |-> FALSE]

skip_byte(b, o, x) ==
    IF peek(b, o) = Some(x)
    THEN [i |-> o + 1, ret |-> TRUE]
    ELSE [i |-> o, ret |-> FALSE]

\* ---- bookmarking ----
mark(b, o) == o

\* Variant: no clamp to the buffer's length.
reset_unclamped(b, o, m) == [i |-> m, ret |-> None]

\* Variant: clamps to the last valid index instead of the length.
reset_last_index(b, o, m) ==
    [i |-> IF Len(b) = 0 THEN 0 ELSE Min(m, Len(b) - 1), ret |-> None]

\* Variant: rewinds to the start whatever the bookmark.
reset_to_start(b, o, m) == [i |-> 0, ret |-> None]

\* Variant: only ever rewinds, a bookmark ahead of the offset is ignored.
reset_backward_only(b, o, m) == [i |-> Min(m, o), ret |-> None]

reset(b, o, m) == [i |-> Min(m, Len(b)), ret |-> None]

\* ---- ASCII classes ----
\* Variant: the blank is missing from the set.
is_space_ascii_no_blank(x) == x \in {9, 10, 13, 12, 11}

is_space_ascii(x) == x \in {32, 9, 10, 13, 12, 11}

\* u8::is_ascii_alphanumeric
is_ascii_alphanumeric(x) ==
    \/ x \in 48..57
    \/ x \in 65..90
    \/ x \in 97..122

is_ident_start_ascii(x) == x \in 65..90 \/ x \in 97..122 \/ x = 95

is_ident_continue_ascii(x) == is_ascii_alphanumeric(x) \/ x = 95

is_digit_ascii(x) == x \in 48..57

SpaceBytes == {x \in 0..255 : is_space_ascii(x)}

IdentBytes == {x \in 0..255 : is_ascii_alphanumeric(x) \/ x = 95}

IdentContinueBytes == {x \in 0..255 : is_ident_continue_ascii(x)}

DigitBytes == {x \in 0..255 : is_digit_ascii(x)}

\* ---- the scanning loop shared by the predicate-driven methods ----
\* Variant: the byte is consumed before the predicate's answer is looked at.
RECURSIVE scan_while_past(_, _, _)
scan_while_past(b, o, P) ==
    IF get(b, o) = None
    THEN o
    ELSE IF b[o + 1] \notin P
         THEN o + 1
         ELSE scan_while_past(b, o + 1, P)

\* while let Some(&x) = buf.get(i) { if !pred(x) { break; } i += 1; }
RECURSIVE scan_while(_, _, _)
scan_while(b, o, P) ==
    IF get(b, o) = None
    THEN o
    ELSE IF b[o + 1] \notin P
         THEN o
         ELSE scan_while(b, o + 1, P)

skip_space(b, o) ==
    LET start == o
        e == scan_while(b, o, SpaceBytes)
    IN  [i |-> e, ret |-> e - start]

\* ---- scanning and matching ----
\* buf[i..].iter().position(|&x| x == d)
RECURSIVE iter_position(_, _, _)
iter_position(s, k, d) ==
    IF k >= Len(s)
    THEN None
    ELSE IF s[k + 1] = d
         THEN Some(k)
         ELSE iter_position(s, k + 1, d)

\* Variant: the distance found is stored as the offset instead of added to it.
skip_until_absolute(b, o, d) ==
    LET found == iter_position(tail(b, o), 0, d)
    IN  IF found # None
        THEN [i |-> found[1], ret |-> found[1]]
        ELSE [i |-> Len(b), ret |-> remaining(b, o)]

\* Variant: the delimiter is consumed with the bytes before it.
skip_until_inclusive(b, o, d) ==
    LET found == iter_position(tail(b, o), 0, d)
    IN  IF found # None
        THEN [i |-> o + found[1] + 1, ret |-> found[1] + 1]
        ELSE [i |-> Len(b), ret |-> remaining(b, o)]

skip_until(b, o, d) ==
    LET found == iter_position(tail(b, o), 0, d)
    IN  IF found # None
        THEN [i |-> o + found[1], ret |-> found[1]]
        ELSE [i |-> Len(b), ret |-> remaining(b, o)]

\* Variant: a failed match keeps the first byte it matched.
match_bytes_partial(b, o, pat) ==
    IF slice_starts_with(tail(b, o), pat)
    THEN [i |-> o + Len(pat), ret |-> TRUE]
    ELSE IF pat # << >> /\ peek(b, o) = Some(pat[1])
         THEN [i |-> o + 1, ret |-> FALSE]
         ELSE [i |-> o, ret |-> FALSE]

\* Variant: no length test, only the bytes that are left are compared.
match_bytes_prefix(b, o, pat) ==
    LET rest == tail(b, o)
        n == Min(Len(pat), Len(rest))
    IN  IF SubSeq(rest, 1, n) = SubSeq(pat, 1, n)
        THEN [i |-> o + Len(pat), ret |-> TRUE]
        ELSE [i |-> o, ret |-> FALSE]

match_bytes(b, o, pat) ==
    IF slice_starts_with(tail(b, o), pat)
    THEN [i |-> o + Len(pat), ret |-> TRUE]
    ELSE [i |-> o, ret |-> FALSE]

expect_bytes(b, o, pat) ==
    LET m == mark(b, o)
        r == match_bytes(b, o, pat)
    IN  IF r.ret
        THEN [i |-> r.i, ret |-> TRUE]
        ELSE [i |-> reset(b, r.i, m).i, ret |-> FALSE]

take_ident_ascii(b, o) ==
    LET start == o
        e == scan_while(b, o, IdentBytes)
    IN  IF e > start
        THEN [i |-> e, ret |-> Some(<<start, e>>)]
        ELSE [i |-> e, ret |-> None]

\* Variant: the first byte is held to the continue class, digits included.
take_ident_starting_any(b, o) ==
    LET start == o
    IN  IF peek(b, o) # None /\ is_ident_continue_ascii(b[o + 1])
        THEN LET e == scan_while(b, o + 1, IdentContinueBytes)
             IN  [i |-> e, ret |-> Some(<<start, e>>)]
        ELSE [i |-> o, ret |-> None]

take_ident_starting_alpha(b, o) ==
    LET start == o
    IN  IF peek(b, o) # None /\ is_ident_start_ascii(b[o + 1])
        THEN LET e == scan_while(b, o + 1, IdentContinueBytes)
             IN  [i |-> e, ret |-> Some(<<start, e>>)]
        ELSE [i |-> o, ret |-> None]

take_int_ascii(b, o) ==
    LET start == o
    IN  IF ~(peek(b, o) # None /\ is_digit_ascii(b[o + 1]))
        THEN [i |-> o, ret |-> None]
        ELSE LET e == scan_while(b, o, DigitBytes)
             IN  [i |-> e, ret |-> Some(<<start, e>>)]

\* Variant: the byte that fails the predicate is consumed too.
skip_while_inclusive(b, o, P) ==
    LET start == o
        e == Min(scan_while(b, o, P) + 1, Len(b))
    IN  [i |-> e, ret |-> e - start]

skip_while(b, o, P) ==
    LET start == o
        e == scan_while(b, o, P)
    IN  [i |-> e, ret |-> e - start]

\* Variant: an empty run is reported as a span.
take_while_empty_span(b, o, P) ==
    LET start == o
        e == scan_while(b, o, P)
    IN  IF e >= start
        THEN [i |-> e, ret |-> Some(<<start, e>>)]
        ELSE [i |-> e, ret |-> None]

take_while(b, o, P) ==
    LET start == o
        e == scan_while(b, o, P)
    IN  IF e > start
        THEN [i |-> e, ret |-> Some(<<start, e>>)]
        ELSE [i |-> e, ret |-> None]

expect_byte(b, o, x) ==
    LET m == mark(b, o)
        r == skip_byte(b, o, x)
    IN  IF r.ret
        THEN [i |-> r.i, ret |-> TRUE]
        ELSE [i |-> reset(b, r.i, m).i, ret |-> FALSE]

\* ---- escaped-delimiter scanning ----
\* Variant: only the escape byte is skipped, the byte after it is tested.
RECURSIVE unescaped_loop_no_skip(_, _, _, _)
unescaped_loop_no_skip(b, o, delim, esc) ==
    IF peek(b, o) = None
    THEN o
    ELSE LET x == b[o + 1]
         IN  IF x = esc
             THEN unescaped_loop_no_skip(b, o + 1, delim, esc)
             ELSE IF x = delim
                  THEN o
                  ELSE unescaped_loop_no_skip(b, o + 1, delim, esc)

RECURSIVE unescaped_loop(_, _, _, _)
unescaped_loop(b, o, delim, esc) ==
    IF peek(b, o) = None
    THEN o
    ELSE LET x == b[o + 1]
         IN  IF x = esc
             THEN IF ~eof(b, o + 1)
                  THEN unescaped_loop(b, o + 2, delim, esc)
                  ELSE unescaped_loop(b, o + 1, delim, esc)
             ELSE IF x = delim
                  THEN o
                  ELSE unescaped_loop(b, o + 1, delim, esc)

\* Variant: a delimiter that is found is consumed.
take_until_unescaped_inclusive(b, o, delim, esc) ==
    LET start == o
        e == unescaped_loop(b, o, delim, esc)
        found == peek(b, e) = Some(delim)
        f == IF found THEN e + 1 ELSE e
    IN  [i |-> f, ret |-> <<f - start, found>>]

take_until_unescaped(b, o, delim, esc) ==
    LET start == o
        e == unescaped_loop(b, o, delim, esc)
    IN  [i |-> e, ret |-> <<e - start, peek(b, e) = Some(delim)>>]

\* Variant: the loop stops on the first delimiter only.
RECURSIVE unescaped2_loop_first_only(_, _, _, _, _)
unescaped2_loop_first_only(b, o, da, db, esc) ==
    IF peek(b, o) = None
    THEN o
    ELSE LET ch == b[o + 1]
         IN  IF ch = esc
             THEN IF ~eof(b, o + 1)
                  THEN unescaped2_loop_first_only(b, o + 2, da, db, esc)
                  ELSE unescaped2_loop_first_only(b, o + 1, da, db, esc)
             ELSE IF ch = da
                  THEN o
                  ELSE unescaped2_loop_first_only(b, o + 1, da, db, esc)

RECURSIVE unescaped2_loop(_, _, _, _, _)
unescaped2_loop(b, o, da, db, esc) ==
    IF peek(b, o) = None
    THEN o
    ELSE LET ch == b[o + 1]
         IN  IF ch = esc
             THEN IF ~eof(b, o + 1)
                  THEN unescaped2_loop(b, o + 2, da, db, esc)
                  ELSE unescaped2_loop(b, o + 1, da, db, esc)
             ELSE IF ch = da \/ ch = db
                  THEN o
                  ELSE unescaped2_loop(b, o + 1, da, db, esc)

take_until_unescaped2(b, o, da, db, esc) ==
    LET start == o
        e == unescaped2_loop(b, o, da, db, esc)
        p == peek(b, e)
        found == IF p # None /\ (p[1] = da \/ p[1] = db) THEN p ELSE None
    IN  [i |-> e, ret |-> <<e - start, found>>]

\* Variant: the slice runs to the end of the buffer.
slice_from_to_end(b, o, m) == SubSeq(b, Min(m, o) + 1, Len(b))

\* slice_from(bookmark): buffer[bookmark..offset], the start clamped to the
\* offset (spec section 4.4; the method is not in cursor.rs).
slice_from(b, o, m) == SubSeq(b, Min(m, o) + 1, o)

\* ---- non-consuming peeks ----
\* Variant: the pattern is compared with the start of the whole buffer.
starts_with_whole(b, o, pat) == slice_starts_with(b, pat)

starts_with(b, o, pat) == slice_starts_with(tail(b, o), pat)

\* A panic of the call (the overflow check of a build with overflow-checks).
Panic == <<"panic", "panic">>

\* a + b on usize: the sum when it fits the word; when it does not, a panic
\* (overflow-checks on, the debug profile) or the wrapped sum (overflow-checks
\* off, the release profile).
add_overflows(a, b) == a + b > UsizeMax

wrapping_add(a, b) == (a + b) % (UsizeMax + 1)

\* <[u8]>::get(s..e): None when s > e or e > len.
get_range(b, s, e) ==
    IF s > e \/ e > Len(b) THEN None ELSE Some(SubSeq(b, s + 1, e))

\* The set of outcomes of peek_n(n): self.buf.get(self.i + n).copied()
peek_n(b, o, n) ==
    IF add_overflows(o, n)
    THEN {Panic, get(b, wrapping_add(o, n))}
    ELSE {get(b, o + n)}

\* The set of outcomes of peek_slice(n): self.buf.get(self.i..self.i + n)
peek_slice(b, o, n) ==
    IF add_overflows(o, n)
    THEN {Panic, get_range(b, o, wrapping_add(o, n))}
    ELSE {get_range(b, o, o + n)}

\* take_space(): take_while over the ASCII whitespace set (spec section 4.6;
\* cursor.rs has skip_space, the tests and benches call take_space).
take_space(b, o) == take_while(b, o, SpaceBytes)

\* ---- argument domains ----
Buffers == SeqsUpTo(Bytes, MaxLen)

\* Integer arguments: every in-range value, the first out-of-range ones, and
\* the largest word.
Counts == (0..(MaxLen + 2)) \cup {UsizeMax}

Patterns == SeqsUpTo(Bytes, MaxPat)

\* Arguments of the peeks: every distance within the longest buffer, and the
\* largest word.
PeekCounts == (0..MaxLen) \cup {UsizeMax}

\* A predicate is the set of bytes it accepts.
Preds == SUBSET Bytes

\* The iterator is asked for at most MaxCalls items in a row.
MaxCalls == MaxLen + 2

\* ---- state ----
\* buf, i    the Cursor's fields
\* op, arg   the last call: the method and its arguments
\* pre, ret  the offset before the last call and the value it returned
\* calls     Some(k) while the cursor has only been driven by k next_byte
\*           calls since new; None once any other method was called
\* bm        the caller's saved bookmark (let m = c.mark()), None before one
\* first     Some(r) when the last call repeated the call before it with the
\*           same arguments, r the value that call had returned; else None
\* iters     the number of iterations a driver loop has made
Init ==
    /\ buf \in Buffers
    /\ i = 0
    /\ op = "new"
    /\ arg = << >>
    /\ pre = 0
    /\ ret = None
    /\ calls = Some(0)
    /\ bm = None
    /\ first = None
    /\ iters = 0

\* A call of method name with arguments args whose outcome is r.
Call(name, args, r) ==
    /\ i' = r.i
    /\ op' = name
    /\ arg' = args
    /\ pre' = i
    /\ ret' = r.ret
    /\ calls' = None
    /\ first' = None
    /\ UNCHANGED <<buf, bm, iters>>

NextByte ==
    /\ calls # None => calls[1] < MaxCalls
    /\ LET r == next_byte(buf, i)
       IN  /\ i' = r.i
           /\ op' = "next_byte"
           /\ arg' = << >>
           /\ pre' = i
           /\ ret' = r.ret
    /\ calls' = IF calls = None THEN None ELSE Some(calls[1] + 1)
    /\ first' = None
    /\ UNCHANGED <<buf, bm, iters>>

Advance == \E n \in Counts : Call("advance", <<n>>, advance(buf, i, n))

SkipByte == \E x \in Bytes : Call("skip_byte", <<x>>, skip_byte(buf, i, x))

\* let m = c.mark();
Mark ==
    /\ bm' = Some(mark(buf, i))
    /\ op' = "mark"
    /\ arg' = << >>
    /\ pre' = i
    /\ ret' = mark(buf, i)
    /\ calls' = None
    /\ first' = None
    /\ UNCHANGED <<buf, i, iters>>

Reset == \E m \in Counts : Call("reset", <<m>>, reset(buf, i, m))

\* c.reset(m) with the saved bookmark
ResetToMark ==
    /\ bm # None
    /\ Call("reset_to_mark", <<bm[1]>>, reset(buf, i, bm[1]))

SliceFrom ==
    \E m \in Counts :
        Call("slice_from", <<m>>, [i |-> i, ret |-> slice_from(buf, i, m)])

SkipSpace == Call("skip_space", << >>, skip_space(buf, i))

SkipUntil == \E d \in Bytes : Call("skip_until", <<d>>, skip_until(buf, i, d))

MatchBytes ==
    \E pat \in Patterns : Call("match_bytes", <<pat>>, match_bytes(buf, i, pat))

ExpectBytes ==
    \E pat \in Patterns : Call("expect_bytes", <<pat>>, expect_bytes(buf, i, pat))

TakeIdentAscii == Call("take_ident_ascii", << >>, take_ident_ascii(buf, i))

TakeIdentStartingAlpha ==
    Call("take_ident_starting_alpha", << >>, take_ident_starting_alpha(buf, i))

TakeIntAscii == Call("take_int_ascii", << >>, take_int_ascii(buf, i))

SkipWhile == \E P \in Preds : Call("skip_while", <<P>>, skip_while(buf, i, P))

TakeWhile == \E P \in Preds : Call("take_while", <<P>>, take_while(buf, i, P))

ExpectByte == \E x \in Bytes : Call("expect_byte", <<x>>, expect_byte(buf, i, x))

TakeUntilUnescaped ==
    \E delim \in Bytes, esc \in Bytes :
        Call("take_until_unescaped", <<delim, esc>>,
             take_until_unescaped(buf, i, delim, esc))

TakeUntilUnescaped2 ==
    \E da \in Bytes, db \in Bytes, esc \in Bytes :
        Call("take_until_unescaped2", <<da, db, esc>>,
             take_until_unescaped2(buf, i, da, db, esc))

StartsWith ==
    \E pat \in Patterns :
        Call("starts_with", <<pat>>, [i |-> i, ret |-> starts_with(buf, i, pat)])

PeekN ==
    \E n \in PeekCounts :
        \E r \in peek_n(buf, i, n) : Call("peek_n", <<n>>, [i |-> i, ret |-> r])

PeekSlice ==
    \E n \in PeekCounts :
        \E r \in peek_slice(buf, i, n) :
            Call("peek_slice", <<n>>, [i |-> i, ret |-> r])

TakeSpace == Call("take_space", << >>, take_space(buf, i))

\* A call of a method that takes &mut self.
Mutate ==
    \/ NextByte
    \/ Advance
    \/ SkipByte
    \/ Reset
    \/ SkipSpace
    \/ SkipUntil
    \/ MatchBytes
    \/ ExpectBytes
    \/ TakeIdentAscii
    \/ TakeIdentStartingAlpha
    \/ TakeIntAscii
    \/ SkipWhile
    \/ TakeWhile
    \/ ExpectByte
    \/ TakeUntilUnescaped
    \/ TakeUntilUnescaped2
    \/ TakeSpace

\* A call of a peek, which takes &self.
Query ==
    \/ SliceFrom
    \/ StartsWith
    \/ PeekN
    \/ PeekSlice

Next ==
    \/ Mutate
    \/ Query

Spec == Init /\ [][Next]_vars

\* ---- a caller that keeps a bookmark (tests/cursor_tests.rs, mark_and_reset) ----
\* Buffers of blanks and letters; the calls in between take every argument.
MarkBytes == {32, 97}

InitMark ==
    /\ buf \in SeqsUpTo(MarkBytes, MaxLen)
    /\ i = 0
    /\ op = "new"
    /\ arg = << >>
    /\ pre = 0
    /\ ret = None
    /\ calls = Some(0)
    /\ bm = None
    /\ first = None
    /\ iters = 0

NextMark ==
    \/ Mark
    \/ ResetToMark
    \/ Mutate

SpecMark == InitMark /\ [][NextMark]_vars

\* ---- a caller that makes the same scan twice in a row ----
\* The last call is made again with the same arguments; r is its outcome.
Again(r) ==
    /\ i' = r.i
    /\ pre' = i
    /\ ret' = r.ret
    /\ first' = Some(ret)
    /\ UNCHANGED <<buf, op, arg, calls, bm, iters>>

SkipUntilAgain ==
    /\ op = "skip_until"
    /\ Again(skip_until(buf, i, arg[1]))

SkipWhileAgain ==
    /\ op = "skip_while"
    /\ Again(skip_while(buf, i, arg[1]))

TakeWhileAgain ==
    /\ op = "take_while"
    /\ Again(take_while(buf, i, arg[1]))

TakeUntilUnescapedAgain ==
    /\ op = "take_until_unescaped"
    /\ Again(take_until_unescaped(buf, i, arg[1], arg[2]))

TakeUntilUnescaped2Again ==
    /\ op = "take_until_unescaped2"
    /\ Again(take_until_unescaped2(buf, i, arg[1], arg[2], arg[3]))

NextTwice ==
    \/ Mutate
    \/ SkipUntilAgain
    \/ SkipWhileAgain
    \/ TakeWhileAgain
    \/ TakeUntilUnescapedAgain
    \/ TakeUntilUnescaped2Again

SpecTwice == Init /\ [][NextTwice]_vars

\* ---- the driver loops of benches/cursor.rs ----
\* while !cur.eof() { if <attempt> matched { hits += 1 } else { cur.next_byte() } }
\* The loop is followed for at most MaxIters iterations.
MaxIters == MaxLen + 2

\* || Cursor::new(black_box(&buf)): no attempt has matched yet.
InitDriver ==
    /\ buf \in Buffers
    /\ i = 0
    /\ op = "new"
    /\ arg = << >>
    /\ pre = 0
    /\ ret = FALSE
    /\ calls = None
    /\ bm = None
    /\ first = None
    /\ iters = 0

\* One iteration: the attempt had outcome r; next_byte() is called when it
\* did not match. The loop keeps of the attempt only whether it matched.
Iterate(name, r, matched) ==
    /\ ~eof(buf, i)
    /\ iters < MaxIters
    /\ i' = IF matched THEN r.i ELSE next_byte(buf, r.i).i
    /\ op' = name
    /\ arg' = << >>
    /\ pre' = i
    /\ ret' = matched
    /\ iters' = iters + 1
    /\ calls' = None
    /\ first' = None
    /\ UNCHANGED <<buf, bm>>

LoopMatchBytes ==
    \E pat \in Patterns \ {<< >>} :
        LET r == match_bytes(buf, i, pat)
        IN  Iterate("match_bytes", r, r.ret)

LoopExpectBytes ==
    \E pat \in Patterns \ {<< >>} :
        LET r == expect_bytes(buf, i, pat)
        IN  Iterate("expect_bytes", r, r.ret)

LoopExpectByte ==
    \E x \in Bytes :
        LET r == expect_byte(buf, i, x)
        IN  Iterate("expect_byte", r, r.ret)

LoopTakeSpace ==
    LET r == take_space(buf, i)
    IN  Iterate("take_space", r, r.ret # None)

LoopTakeIdentAscii ==
    LET r == take_ident_ascii(buf, i)
    IN  Iterate("take_ident_ascii", r, r.ret # None)

LoopTakeIdentStartingAlpha ==
    LET r == take_ident_starting_alpha(buf, i)
    IN  Iterate("take_ident_starting_alpha", r, r.ret # None)

LoopTakeIntAscii ==
    LET r == take_int_ascii(buf, i)
    IN  Iterate("take_int_ascii", r, r.ret # None)

\* let _ = cur.take_space(); if cur.take_ident_ascii().is_some() { .. }
\* else { cur.next_byte() }
LoopSpaceThenIdent ==
    LET s == take_space(buf, i)
        r == take_ident_ascii(buf, s.i)
    IN  Iterate("take_space_then_ident", r, r.ret # None)

NextDriver ==
    \/ LoopMatchBytes
    \/ LoopExpectBytes
    \/ LoopExpectByte
    \/ LoopTakeSpace
    \/ LoopTakeIdentAscii
    \/ LoopTakeIdentStartingAlpha
    \/ LoopTakeIntAscii
    \/ LoopSpaceThenIdent

\* The loop runs on while its condition holds.
SpecDriver == InitDriver /\ [][NextDriver]_vars /\ WF_iters(NextDriver)

\* ======================= properties =======================

\* The arguments of the last call.
Arg1 == arg[1]

\* The bytes at indices lo .. hi-1 all satisfy P, and the run ends at hi.
MaximalRun(P, lo, hi) ==
    /\ hi \in lo..Len(buf)
    /\ \A k \in lo..(hi - 1) : buf[k + 1] \in P
    /\ (hi = Len(buf) \/ buf[hi + 1] \notin P)

\* C1: in every reachable state, whatever calls were made with whatever
\* arguments, 0 <= offset <= length(buffer).
C1_OffsetInBounds == i \in 0..Len(buf)

C1_Witness ==
    /\ op = "reset"
    /\ Arg1 = UsizeMax
    /\ pre < Len(buf)
    /\ i = Len(buf)

\* C2: advance(n) is all-or-nothing: if n <= remaining the offset grows by
\* exactly n and n bytes are reported; if n > remaining the offset is
\* unchanged (nothing is consumed, the cursor does not become at_end).
C2_AdvanceAllOrNothing ==
    op = "advance" =>
        IF Arg1 <= Len(buf) - pre
        THEN i = pre + Arg1 /\ ret = Arg1
        ELSE i = pre /\ (eof(buf, i) <=> eof(buf, pre))

\* C3: whenever a call that can report no-match reports it, the offset
\* after the call equals the offset before the call.
NoMatch ==
    \/ /\ op \in {"next_byte", "take_while", "take_ident_ascii",
                       "take_ident_starting_alpha", "take_int_ascii"}
       /\ ret = None
    \/ /\ op \in {"skip_byte", "expect_byte", "match_bytes", "expect_bytes"}
       /\ ret = FALSE

C3_NoMatchKeepsOffset == NoMatch => i = pre

\* A pattern whose first byte matches and whose second does not.
C3_Witness ==
    /\ op = "match_bytes"
    /\ ret = FALSE
    /\ pre > 0
    /\ Len(Arg1) = 2
    /\ pre + 2 <= Len(buf)
    /\ buf[pre + 1] = Arg1[1]
    /\ buf[pre + 2] # Arg1[2]

\* C4: from a fresh cursor over B, the k-th next_byte call (1 <= k <=
\* length(B)) returns B[k-1] and leaves the offset at k; every later call
\* returns absent and leaves the offset at length(B).
C4_NextByteEnumerates ==
    (calls # None /\ calls[1] >= 1) =>
        LET k == calls[1]
        IN  /\ op = "next_byte"
            /\ IF k <= Len(buf)
               THEN ret = Some(buf[k]) /\ pre = k - 1 /\ i = k
               ELSE ret = None /\ pre = Len(buf) /\ i = Len(buf)

\* Two calls past the last byte of a buffer of two or more bytes.
C4_Witness ==
    /\ calls # None
    /\ Len(buf) >= 2
    /\ calls[1] = Len(buf) + 2

\* C5: m = mark(), then any calls, then reset(m): position() equals the
\* offset at the time of mark().
C5_ResetRestoresMark ==
    op = "reset_to_mark" => pos(buf, i) = bm[1]

\* The cursor had run to the end of the buffer from a mark in the middle.
C5_Witness ==
    /\ op = "reset_to_mark"
    /\ bm[1] \in 1..(Len(buf) - 1)
    /\ pre = Len(buf)
    /\ i = bm[1]

\* C6: slice_from(bookmark) returns buffer[bookmark..offset] when bookmark <=
\* offset, the empty slice when bookmark > offset, and keeps the offset.
C6_SliceFrom ==
    op = "slice_from" =>
        /\ i = pre
        /\ IF Arg1 <= i
           THEN /\ Len(ret) = i - Arg1
                /\ \A k \in 1..Len(ret) : ret[k] = buf[Arg1 + k]
           ELSE ret = << >>

\* Two bytes consumed since a bookmark past the start.
C6_Witness ==
    /\ op = "slice_from"
    /\ Arg1 >= 1
    /\ i >= Arg1 + 2
    /\ Len(ret) = 2

\* C7: take_while(p) returns absent iff the cursor is at end or p is false
\* on the byte at the starting offset; otherwise it returns the span
\* [old_offset, j), j the first index >= old_offset that is the end of the
\* buffer or has p false, and the offset becomes j.
C7_TakeWhile ==
    op = "take_while" =>
        LET P == Arg1
            o == pre
        IN  /\ ret = None <=> (o = Len(buf) \/ buf[o + 1] \notin P)
            /\ ret # None =>
                   /\ ret = Some(<<o, i>>)
                   /\ MaximalRun(P, o, i)

\* A run of two bytes that stops at a byte failing the predicate.
C7_Witness ==
    /\ op = "take_while"
    /\ ret # None
    /\ i = pre + 2
    /\ i < Len(buf)

\* C8: skip_while(p) always returns a count, the number of consecutive bytes
\* from the old offset that satisfy p, and the offset advances by that number.
C8_SkipWhile ==
    op = "skip_while" =>
        /\ ret \in 0..(Len(buf) - pre)
        /\ i = pre + ret
        /\ MaximalRun(Arg1, pre, pre + ret)

\* A zero-length result in the middle of the buffer.
C8_Witness ==
    /\ op = "skip_while"
    /\ ret = 0
    /\ pre \in 1..(Len(buf) - 1)
    /\ Arg1 # {}

\* C9: match_bytes(pattern) succeeds iff length(pattern) <= remaining and
\* the bytes at the offset equal the pattern; on success the offset grows by
\* length(pattern); the empty pattern succeeds everywhere; a pattern longer
\* than the remaining bytes is a no-match.
C9_MatchBytes ==
    op = "match_bytes" =>
        LET pat == Arg1
            o == pre
            fits == Len(pat) <= Len(buf) - o
        IN  /\ ret <=>
                   (fits /\ \A k \in 1..Len(pat) : buf[o + k] = pat[k])
            /\ ret => i = o + Len(pat)
            /\ pat = << >> => (ret /\ i = o)
            /\ ~fits => ~ret

\* The remaining byte is the first byte of a longer pattern.
C9_Witness ==
    /\ op = "match_bytes"
    /\ pre = Len(buf) - 1
    /\ Len(Arg1) = 2
    /\ buf[pre + 1] = Arg1[1]
    /\ ~ret

\* C10: expect_bytes returns what match_bytes returns and leaves the offset
\* where match_bytes leaves it, for every state and pattern.
C10_ExpectIsMatch ==
    /\ \A pat \in Patterns : expect_bytes(buf, i, pat) = match_bytes(buf, i, pat)
    /\ op = "expect_bytes" =>
           [i |-> i, ret |-> ret] = match_bytes(buf, pre, Arg1)

\* A failed expect_bytes away from the start: the rollback branch.
C10_Witness ==
    /\ op = "expect_bytes"
    /\ ~ret
    /\ pre > 0
    /\ pre < Len(buf)
    /\ Len(Arg1) = 1

\* C11: starts_with(pattern) is true exactly in the states where
\* match_bytes(pattern) would succeed, and it leaves the offset unchanged
\* whether it returns true or false.
C11_StartsWith ==
    op = "starts_with" =>
        LET pat == Arg1
        IN  /\ i = pre
            /\ ret <=> match_bytes(buf, pre, pat).ret
            /\ ret <=> /\ Len(pat) <= Len(buf) - pre
                       /\ \A k \in 1..Len(pat) : buf[pre + k] = pat[k]

\* A two-byte pattern found past the start of the buffer.
C11_Witness ==
    /\ op = "starts_with"
    /\ ret
    /\ pre > 0
    /\ Len(Arg1) = 2

\* C12: skip_until(delim) moves the offset to the smallest index j >= the old
\* offset with buffer[j] = delim, or to length(buffer) if there is none; it
\* reports the span [old_offset, j); the delimiter is not consumed, so peek()
\* is then delim, or absent (at end) exactly when delim did not occur.
C12_SkipUntil ==
    op = "skip_until" =>
        LET d == Arg1
            occurs == \E k \in pre..(Len(buf) - 1) : buf[k + 1] = d
        IN  /\ i \in pre..Len(buf)
            /\ \A k \in pre..(i - 1) : buf[k + 1] # d
            /\ ret = i - pre
            /\ occurs => peek(buf, i) = Some(d)
            /\ ~occurs => (eof(buf, i) /\ peek(buf, i) = None /\ i = Len(buf))

\* The delimiter is found after a byte that is skipped, before the end.
C12_Witness ==
    /\ op = "skip_until"
    /\ i > pre
    /\ i < Len(buf) - 1
    /\ buf[i + 1] = Arg1

\* The byte at index k is escaped in a scan that starts at index o: the byte
\* before it is an escape byte of that scan that is not itself escaped.
RECURSIVE Escaped(_, _, _)
Escaped(o, esc, k) == k > o /\ buf[k] = esc /\ ~Escaped(o, esc, k - 1)

\* The first index at or after o that holds an unescaped byte of D which is
\* not the escape byte; the length of the buffer when there is none.
StopIndex(o, D, esc) ==
    LET S == {k \in o..(Len(buf) - 1) :
                 ~Escaped(o, esc, k) /\ buf[k + 1] \in D /\ buf[k + 1] # esc}
    IN  IF S = {} THEN Len(buf) ELSE CHOOSE k \in S : \A j \in S : k <= j

\* C13: after take_until_unescaped(delimiter, escape), found is true iff the
\* scan stopped at a delimiter byte that was tested and not escaped, and then
\* the delimiter is not consumed (peek() = delimiter); found is false iff the
\* cursor is at end; the count is new offset - old offset.
C13_FoundAndCount ==
    op = "take_until_unescaped" =>
        LET delim == arg[1]
            esc == arg[2]
            count == ret[1]
            found == ret[2]
        IN  /\ found <=> /\ i < Len(buf)
                         /\ buf[i + 1] = delim
                         /\ delim # esc
                         /\ ~Escaped(pre, esc, i)
            /\ found => peek(buf, i) = Some(delim)
            /\ ~found <=> eof(buf, i)
            /\ count = i - pre

\* The scan stops on a delimiter after passing an escaped byte.
C13_Witness ==
    /\ op = "take_until_unescaped"
    /\ ret[2]
    /\ i = pre + 2
    /\ buf[pre + 1] = arg[2]

\* C14: in take_until_unescaped every byte right after an escape byte the
\* scan meets is skipped untested (an escaped delimiter does not stop the
\* scan, an escaped escape does not escape its successor), and an escape
\* byte that is the last byte of the buffer is consumed alone, the scan
\* ending at end-of-buffer with found = false.
C14_EscapeSkipsNext ==
    op = "take_until_unescaped" =>
        LET delim == arg[1]
            esc == arg[2]
            n == Len(buf)
        IN  /\ i = StopIndex(pre, {delim}, esc)
            /\ i < n => ~Escaped(pre, esc, i)
            /\ (/\ n > pre
                /\ buf[n] = esc
                /\ ~Escaped(pre, esc, n - 1)
                /\ StopIndex(pre, {delim}, esc) = n)
               => (i = n /\ ret = <<n - pre, FALSE>>)

\* An escaped delimiter was passed and the last byte is a lone escape.
C14_Witness ==
    /\ op = "take_until_unescaped"
    /\ arg[1] # arg[2]
    /\ Len(buf) = pre + 3
    /\ buf[pre + 1] = arg[2]
    /\ buf[pre + 2] = arg[1]
    /\ buf[pre + 3] = arg[2]
    /\ i = Len(buf)

\* C15: take_until_unescaped2(a, b, escape) makes the traversal of
\* take_until_unescaped and stops at the first unescaped byte equal to a or
\* b without consuming it; found is that byte when it stopped on one, and
\* absent exactly when it reached end-of-buffer.
C15_TwoDelimiters ==
    op = "take_until_unescaped2" =>
        LET da == arg[1]
            db == arg[2]
            esc == arg[3]
            count == ret[1]
            found == ret[2]
        IN  /\ i = StopIndex(pre, {da, db}, esc)
            /\ count = i - pre
            /\ i < Len(buf) => (found = Some(buf[i + 1]) /\ buf[i + 1] \in {da, db})
            /\ found = None <=> eof(buf, i)
            /\ da = db =>
                   /\ i = take_until_unescaped(buf, pre, da, esc).i
                   /\ (found # None) = take_until_unescaped(buf, pre, da, esc).ret[2]

\* The scan passes an escaped first delimiter and stops on the second.
C15_Witness ==
    /\ op = "take_until_unescaped2"
    /\ Cardinality({arg[1], arg[2], arg[3]}) = 3
    /\ i = pre + 2
    /\ buf[pre + 1] = arg[3]
    /\ buf[pre + 2] = arg[1]
    /\ ret[2] = Some(arg[2])

\* The bytes [A-Za-z_] and [A-Za-z0-9_].
IdentStartSet == (65..90) \cup (97..122) \cup {95}

IdentSet == IdentStartSet \cup (48..57)

\* C16: take_ident_starting_alpha returns absent with the offset unchanged
\* when the cursor is at end or the byte at the offset is not in [A-Za-z_];
\* otherwise it consumes that byte and the maximal run of [A-Za-z0-9_] after
\* it and returns the span [old_offset, new_offset).
C16_IdentStartingAlpha ==
    op = "take_ident_starting_alpha" =>
        IF pre = Len(buf) \/ buf[pre + 1] \notin IdentStartSet
        THEN ret = None /\ i = pre
        ELSE /\ ret = Some(<<pre, i>>)
             /\ i >= pre + 1
             /\ MaximalRun(IdentSet, pre + 1, i)
             /\ (eof(buf, i) \/ buf[i + 1] \notin IdentSet)

\* A letter, then a digit, then a byte that ends the identifier.
C16_Witness ==
    /\ op = "take_ident_starting_alpha"
    /\ ret # None
    /\ i = pre + 2
    /\ buf[pre + 2] \in 48..57
    /\ i < Len(buf)

\* C17: for every n of the machine word, also when offset + n exceeds the
\* largest word, peek_n(n) is buffer[offset+n] when offset+n < length and
\* absent otherwise, peek_slice(n) is buffer[offset..offset+n] when
\* offset+n <= length and absent otherwise; neither panics or moves the offset.
C17_PeeksInBounds ==
    /\ op = "peek_n" =>
           /\ i = pre
           /\ ret # Panic
           /\ ret = IF pre + Arg1 < Len(buf) THEN Some(buf[pre + Arg1 + 1]) ELSE None
    /\ op = "peek_slice" =>
           /\ i = pre
           /\ ret # Panic
           /\ ret = IF pre + Arg1 <= Len(buf)
                    THEN Some(SubSeq(buf, pre + 1, pre + Arg1))
                    ELSE None

\* C18: reset(bookmark) sets the offset to min(bookmark, length(buffer)) for
\* any integer bookmark, ahead of or behind the current offset.
C18_ResetClamps ==
    op = "reset" =>
        /\ i = IF Arg1 <= Len(buf) THEN Arg1 ELSE Len(buf)
        /\ ret = None

\* A bookmark ahead of the offset and inside the buffer.
C18_Witness ==
    /\ op = "reset"
    /\ Arg1 > pre + 1
    /\ Arg1 < Len(buf)
    /\ i = Arg1

\* The six ASCII whitespace bytes: space, tab, LF, CR, form feed, vertical tab.
WhitespaceSet == {32, 9, 10, 13, 12, 11}

C20_SkipIsExpectByte ==
    /\ \A x \in Bytes : expect_byte(buf, i, x) = skip_byte(buf, i, x)
    /\ op \in {"skip_byte", "expect_byte"} =>
           IF pre < Len(buf) /\ buf[pre + 1] = Arg1
           THEN i = pre + 1 /\ ret = TRUE
           ELSE i = pre /\ ret = FALSE

\* expect_byte fails on a byte that is there but is another one.
C20_Witness ==
    /\ op = "expect_byte"
    /\ ~ret
    /\ pre > 0
    /\ pre < Len(buf)
    /\ i = pre

\* C21: across every single call other than reset the offset never
\* decreases: the call leaves it strictly larger (it consumed) or exactly
\* equal (query, failure, zero-length scan); only reset moves it backwards.
C21_OnlyResetMovesBack ==
    op \notin {"reset", "reset_to_mark"} => i >= pre

\* A scan that consumed, started from an offset a reset could go back from.
C21_Witness ==
    /\ op = "skip_until"
    /\ pre >= 1
    /\ i > pre
    /\ i < Len(buf)

\* C22: skip_until, skip_while, take_until_unescaped or take_until_unescaped2
\* called again with the same arguments right after it returned consumes
\* zero bytes and leaves the offset unchanged, the escaped scans reporting
\* the found value of the first call; take_while called again right after a
\* successful take_while returns absent.
C22_RepeatedScan ==
    first # None =>
        LET r == first[1]
        IN  /\ op \in {"skip_until", "skip_while"} => (i = pre /\ ret = 0)
            /\ op \in {"take_until_unescaped", "take_until_unescaped2"} =>
                   (i = pre /\ ret = <<0, r[2]>>)
            /\ (op = "take_while" /\ r # None) => (i = pre /\ ret = None)

\* The first call passed two bytes and stopped on a delimiter.
C22_Witness ==
    /\ first # None
    /\ op = "take_until_unescaped"
    /\ first[1][1] = 2
    /\ first[1][2]
    /\ pre = i

\* C23: in a loop 'while not at_end: attempt one matching operation (with a
\* non-empty pattern); on no-match call next_byte()' every iteration leaves
\* the offset strictly larger than it found it, so the loop makes at most
\* length(buffer) iterations and reaches at_end.
C23_DriverLoopTerminates ==
    /\ [](iters > 0 => i > pre)
    /\ [](iters <= Len(buf))
    /\ <>eof(buf, i)

\* Every iteration took one byte, the last one through next_byte().
C23_Witness ==
    /\ Len(buf) >= 2
    /\ iters = Len(buf)
    /\ eof(buf, i)
    /\ op = "expect_bytes"
    /\ ret = FALSE

====
